---- MODULE Spec2Model ----
(***************************************************************************)
(* Model of the paste-to-upload plugin of src/main.ts: the settings        *)
(* object and the ImageUploadService built from it, the editor-paste       *)
(* handler with its sequential uploads, the response handling of           *)
(* uploadImage, insert_image on the workspace's active leaf, and the       *)
(* multipart payload construction.                                         *)
(***************************************************************************)
EXTENDS Integers, Sequences, FiniteSets, TLC

(* ---------------- bounds ---------------- *)
MaxEvents == 2        \* paste events that may overlap
MaxItems == 2         \* clipboard entries per paste event
MaxBlobLen == 2       \* bytes of a sampled image blob

Events == 1..MaxEvents
Idx == 1..MaxItems

(* ---------------- JavaScript values ---------------- *)
Str(s) == [t |-> "string", v |-> s]
Num(s) == [t |-> "number", v |-> s]
Undefined == [t |-> "undefined", v |-> ""]
JsNull == [t |-> "null", v |-> ""]
JsObject == [t |-> "object", v |-> ""]
ErrorOf(msg) == [t |-> "Error", v |-> msg]
NoValue == [t |-> "none", v |-> ""]

\* the text a template literal `${v}` renders for v
TemplateString(v) ==
  CASE v.t = "string" -> v.v
    [] v.t = "number" -> v.v
    [] v.t = "undefined" -> "undefined"
    [] v.t = "null" -> "null"
    [] v.t = "object" -> "[object Object]"
    [] v.t = "Error" -> "Error: " \o v.v
    [] OTHER -> ""

\* v instanceof Error
InstanceofError(v) == v.t = "Error"

(* ---------------- settings ---------------- *)
DEFAULT_SETTINGS ==
  [apiEndpoint |-> "https://xxxxx/api/1/upload", apiToken |-> "your-api-token-here"]

Endpoints == {"https://xxxxx/api/1/upload", "https://img.example:8443/api/1/upload"}
Tokens == {"your-api-token-here", "12345abcdef"}

NoData == [apiEndpoint |-> "", apiToken |-> ""]

\* Object.assign({}, DEFAULT_SETTINGS, loadedSettings)
loadSettings(loaded) == IF loaded = NoData THEN DEFAULT_SETTINGS ELSE loaded

\* new ImageUploadService(apiEndpoint, apiToken): the two strings are copied
ImageUploadService(s) == [apiEndpoint |-> s.apiEndpoint, apiToken |-> s.apiToken]

\* new URL(endpoint): hostname, port and pathname of the sampled endpoints
ParseURL(u) ==
  CASE u = "https://xxxxx/api/1/upload" ->
         [hostname |-> "xxxxx", port |-> "", pathname |-> "/api/1/upload"]
    [] u = "https://img.example:8443/api/1/upload" ->
         [hostname |-> "img.example", port |-> "8443", pathname |-> "/api/1/upload"]
    [] OTHER -> [hostname |-> "", port |-> "", pathname |-> ""]

(* ---------------- multipart payload ---------------- *)
boundary == <<45,45,45,45,87,101,98,75,105,116,70,111,114,109,66,111,117,110,100,97,114,121,55,77,65,52,89,87,120,107,84,114,90,117,48,103,87>>
DispositionText == <<13,10,67,111,110,116,101,110,116,45,68,105,115,112,111,115,105,116,105,111,110,58,32,102,111,114,109,45,100,97,116,97,59,32,110,97,109,101,61,34,115,111,117,114,99,101,34,59,32,102,105,108,101,110,97,109,101,61,34>>
ContentTypeText == <<34,13,10,67,111,110,116,101,110,116,45,84,121,112,101,58,32>>
CRLF == <<13,10>>
DashDash == <<45,45>>

RECURSIVE FlattenRange(_, _, _)
FlattenRange(ss, lo, hi) ==
  IF lo > hi THEN <<>>
  ELSE IF lo = hi THEN ss[lo]
  ELSE LET mid == (lo + hi) \div 2 IN
       FlattenRange(ss, lo, mid) \o FlattenRange(ss, mid + 1, hi)
Flatten(ss) == FlattenRange(ss, 1, Len(ss))

\* UTF-8 bytes of one UTF-16 code unit outside the surrogate range
Utf8(c) ==
  IF c < 128 THEN <<c>>
  ELSE IF c < 2048 THEN <<192 + (c \div 64), 128 + (c % 64)>>
  ELSE <<224 + (c \div 4096), 128 + ((c \div 64) % 64), 128 + (c % 64)>>

\* Buffer.from(string): the string's UTF-8 encoding
BufferFrom(s) == Flatten([i \in 1..Len(s) |-> Utf8(s[i])])

PartHeader(file) ==
  BufferFrom(DashDash \o boundary \o DispositionText \o file.name
             \o ContentTypeText \o file.type \o CRLF \o CRLF)
Terminator == BufferFrom(CRLF \o DashDash \o boundary \o DashDash \o CRLF)

\* Buffer.concat([header, buffer, terminator])
Payload(file) == PartHeader(file) \o file.bytes \o Terminator

\* the options object handed to https.request
Options(svc, file) ==
  LET url == ParseURL(svc.apiEndpoint) IN
  [hostname |-> url.hostname,
   port |-> IF url.port = "" THEN "443" ELSE url.port,
   path |-> url.pathname,
   method |-> "POST",
   contentLength |-> Len(Payload(file)),
   apiKey |-> svc.apiToken]
NoRequest ==
  [hostname |-> "", port |-> "", path |-> "", method |-> "",
   contentLength |-> 0, apiKey |-> ""]

(* ---------------- responses ---------------- *)
StatusCodes == {200, 201, 403, 500}

B_ok == <<"{\"status_code\":200,", "\"image\":{\"url\":\"https://x/y.png\"}}">>
B_500 == <<"{\"status_code\"", ":500}">>
B_html == <<"<html>Bad ", "Gateway</html>">>
B_nourl == <<"{\"status_code\":200,", "\"image\":{}}">>
B_noimage == <<"{\"status_", "code\":200}">>
B_null == <<"nu", "ll">>
B_str200 == <<"{\"status_code\":\"200\",", "\"image\":{\"url\":\"https://x/y.png\"}}">>
B_nostatus == <<"{\"image\":", "{\"url\":\"https://x/y.png\"}}">>
B_number == <<"20", "0">>
Bodies == {B_ok, B_500, B_html, B_nourl, B_noimage, B_null, B_str200, B_nostatus, B_number}

RECURSIVE Join(_)
Join(chunks) == IF chunks = <<>> THEN "" ELSE Head(chunks) \o Join(Tail(chunks))

\* JSON.parse(text) for the sampled bodies: whether it throws, whether the
\* value accepts property reads (null does not), and the fields read
JSONparse(text) ==
  LET V(thr, nul, sc, img, url) ==
        [throws |-> thr, isNull |-> nul, status_code |-> sc, image |-> img, url |-> url]
  IN
  CASE text = Join(B_ok) -> V(FALSE, FALSE, Num("200"), JsObject, Str("https://x/y.png"))
    [] text = Join(B_500) -> V(FALSE, FALSE, Num("500"), Undefined, Undefined)
    [] text = Join(B_nourl) -> V(FALSE, FALSE, Num("200"), JsObject, Undefined)
    [] text = Join(B_noimage) -> V(FALSE, FALSE, Num("200"), Undefined, Undefined)
    [] text = Join(B_null) -> V(FALSE, TRUE, Undefined, Undefined, Undefined)
    [] text = Join(B_str200) -> V(FALSE, FALSE, Str("200"), JsObject, Str("https://x/y.png"))
    [] text = Join(B_nostatus) -> V(FALSE, FALSE, Undefined, JsObject, Str("https://x/y.png"))
    [] text = Join(B_number) -> V(FALSE, FALSE, Undefined, Undefined, Undefined)
    [] OTHER -> V(TRUE, FALSE, Undefined, Undefined, Undefined)

\* json.status_code == 200 (loose equality)
LooseEq200(v) == (v.t = "number" /\ v.v = "200") \/ (v.t = "string" /\ v.v = "200")

Resolve(v, p) == [kind |-> "resolve", value |-> v, parsed |-> p]
Reject(msg, p) == [kind |-> "reject", value |-> ErrorOf(msg), parsed |-> p]
Pending == [kind |-> "pending", value |-> NoValue, parsed |-> FALSE]

\* EndHandler taking every 2xx status for success
EndHandler_any2xx(status, data) ==
  IF status >= 200 /\ status < 300
  THEN LET json == JSONparse(data) IN
       IF json.throws THEN Reject("Error parsing response: SyntaxError", TRUE)
       ELSE IF json.isNull THEN Reject("Error parsing response: TypeError", TRUE)
       ELSE IF LooseEq200(json.status_code)
            THEN IF json.image.t \in {"undefined", "null"}
                 THEN Reject("Error parsing response: TypeError", TRUE)
                 ELSE Resolve(json.url, TRUE)
            ELSE Reject("Upload failed: " \o data, TRUE)
  ELSE Reject("Upload failed with status: " \o ToString(status), FALSE)

\* res.on('end'): the settlement of the promise uploadImage returns
EndHandler(status, data) ==
  IF status = 200
  THEN LET json == JSONparse(data) IN
       IF json.throws THEN Reject("Error parsing response: SyntaxError", TRUE)
       ELSE IF json.isNull THEN Reject("Error parsing response: TypeError", TRUE)
       ELSE IF LooseEq200(json.status_code)
            THEN IF json.image.t \in {"undefined", "null"}
                 THEN Reject("Error parsing response: TypeError", TRUE)
                 ELSE Resolve(json.url, TRUE)
            ELSE Reject("Upload failed: " \o data, TRUE)
  ELSE Reject("Upload failed with status: " \o ToString(status), FALSE)

\* req.on('error')
ErrorHandler(err) == Reject("Request error: " \o err, FALSE)

(* ---------------- clipboard ---------------- *)
ItemTypes == {"image/png", "text/plain"}
NoClipboardData == <<"null">>
Clipboards ==
  {NoClipboardData} \cup UNION {[1..n -> ItemTypes] : n \in 0..MaxItems}

\* item.type.startsWith('image')
StartsWithImage(type) == type \in {"image/png", "image/jpeg", "image/gif"}

\* item.getAsFile() of a pasted image
GetAsFile(type) ==
  [name |-> <<105,109,97,103,101,46,112,110,103>>,
   type |-> IF type = "image/png"
            THEN <<105,109,97,103,101,47,112,110,103>>
            ELSE <<105,109,97,103,101,47,106,112,101,103>>,
   bytes |-> <<137, 80, 78, 71>>]

(* ---------------- workspace ---------------- *)
Docs == {"a.md", "b.md"}
Leaves == Docs \cup {"null", "graph"}   \* no active leaf, or a non-Markdown view
InitialText == <<"text">>

\* activeLeaf && activeLeaf.view instanceof MarkdownView
IsMarkdownView(leaf) == leaf \in Docs

\* imageMarkdown writing a plain link, without the leading "!"
imageMarkdown_plainLink(image_url) == "[](" \o TemplateString(image_url) \o ")"

\* `![](${image_url})`
imageMarkdown(image_url) == "![](" \o TemplateString(image_url) \o ")"

\* editor.replaceRange(text, pos): text inserted at pos, nothing replaced
replaceRange(content, text, pos) ==
  SubSeq(content, 1, pos) \o <<text>> \o SubSeq(content, pos + 1, Len(content))

\* insert_image returning silently when no Markdown view is active
insert_image_silent(leaf, image_url) ==
  IF IsMarkdownView(leaf)
  THEN [target |-> leaf, text |-> imageMarkdown(image_url), notice |-> "none"]
  ELSE [target |-> "null", text |-> "", notice |-> "none"]

\* insert_image writing to the first Markdown leaf instead of the active one
insert_image_firstLeaf(leaf, image_url) ==
  IF IsMarkdownView(leaf)
  THEN [target |-> "a.md", text |-> imageMarkdown(image_url), notice |-> "none"]
  ELSE [target |-> "null", text |-> "",
        notice |-> "Failed to insert image, no active Markdown view."]

\* insert_image: the document written and the notice raised
insert_image(leaf, image_url) ==
  IF IsMarkdownView(leaf)
  THEN [target |-> leaf, text |-> imageMarkdown(image_url), notice |-> "none"]
  ELSE [target |-> "null", text |-> "",
        notice |-> "Failed to insert image, no active Markdown view."]

\* the branch of paste_handle after the await returned image_url
AfterUpload(leaf, image_url) ==
  IF InstanceofError(image_url)
  THEN [target |-> "null", text |-> "", notice |-> "Failed to upload image"]
  ELSE insert_image(leaf, image_url)

\* Started for a loop that does not await: every remaining image at once
Started_noAwait(its, from) ==
  {k \in from..Len(its) : StartsWithImage(its[k])}

\* the uploads the for loop issues when it runs from index `from` until it
\* suspends at an await or ends
Started(its, from) ==
  LET imgs == {k \in from..Len(its) : StartsWithImage(its[k])} IN
  IF imgs = {} THEN {} ELSE {CHOOSE k \in imgs : \A j \in imgs : k <= j}

(* ---------------- state ---------------- *)
VARIABLES
  settings,      \* plugin.settings
  data,          \* what saveData persisted
  service,       \* plugin.imageUploadService
  activeLeaf,    \* app.workspace.activeLeaf
  cursor,        \* editor.getCursor() of each document
  doc,           \* text of each document, a sequence of chunks
  pc,            \* per paste event: idle, await, done, thrown
  items,         \* per paste event: evt.clipboardData.items
  editor,        \* per paste event: the editor that received it
  prevented,     \* per paste event: evt.preventDefault() was called
  up,            \* per event and item: none, flight, ok, fail
  sent,          \* per event and item: the request options sent
  val,           \* per event and item: image_url, what the await returned
  eff,           \* per event and item: what paste_handle did with the result
  statusCode,    \* res.statusCode of the response being received
  wire,          \* chunks of the response not yet delivered
  responseData,  \* chunks received so far
  settled,       \* settlement of the promise of one uploadImage call
  blob,          \* the File handed to uploadImage
  payload,       \* the request body built from it
  contentLength  \* the Content-Length header declared for it

mainVars == <<settings, data, service, activeLeaf, cursor, doc, pc, items,
              editor, prevented, up, sent, val, eff>>
httpVars == <<statusCode, wire, responseData, settled>>
bodyVars == <<blob, payload, contentLength>>
vars == <<mainVars, httpVars, bodyVars>>

NoEffect == [target |-> "null", text |-> "", notice |-> "none"]
NoFile == [name |-> <<>>, type |-> <<>>, bytes |-> <<>>]

MainInit ==
  /\ data = NoData
  /\ settings = loadSettings(NoData)
  /\ service = ImageUploadService(loadSettings(NoData))
  /\ activeLeaf \in Leaves
  /\ cursor \in [Docs -> 0..Len(InitialText)]
  /\ doc = [d \in Docs |-> InitialText]
  /\ pc = [e \in Events |-> "idle"]
  /\ items = [e \in Events |-> <<>>]
  /\ editor = [e \in Events |-> "null"]
  /\ prevented = [e \in Events |-> FALSE]
  /\ up = [e \in Events |-> [k \in Idx |-> "none"]]
  /\ sent = [e \in Events |-> [k \in Idx |-> NoRequest]]
  /\ val = [e \in Events |-> [k \in Idx |-> NoValue]]
  /\ eff = [e \in Events |-> [k \in Idx |-> NoEffect]]
HttpIdle ==
  /\ statusCode = 0
  /\ wire = <<>>
  /\ responseData = ""
  /\ settled = Pending
BodyIdle ==
  /\ blob = NoFile
  /\ payload = <<>>
  /\ contentLength = 0

Init == MainInit /\ HttpIdle /\ BodyIdle

(* ---------------- settings tab and plugin load ---------------- *)
\* onChange of the API Endpoint field, with the saveSettings it awaits
SetEndpoint(value) ==
  /\ value # settings.apiEndpoint
  /\ settings' = [settings EXCEPT !.apiEndpoint = value]
  /\ data' = settings'
  /\ UNCHANGED <<service, activeLeaf, cursor, doc, pc, items, editor,
                 prevented, up, sent, val, eff, httpVars, bodyVars>>

\* onChange of the API Key field, with the saveSettings it awaits
SetToken(value) ==
  /\ value # settings.apiToken
  /\ settings' = [settings EXCEPT !.apiToken = value]
  /\ data' = settings'
  /\ UNCHANGED <<service, activeLeaf, cursor, doc, pc, items, editor,
                 prevented, up, sent, val, eff, httpVars, bodyVars>>

\* onload of a re-enabled plugin; taken while no paste event is suspended
Onload ==
  /\ \A e \in Events : pc[e] # "await"
  /\ service # ImageUploadService(loadSettings(data))
  /\ settings' = loadSettings(data)
  /\ service' = ImageUploadService(settings')
  /\ UNCHANGED <<data, activeLeaf, cursor, doc, pc, items, editor,
                 prevented, up, sent, val, eff, httpVars, bodyVars>>

(* ---------------- workspace ---------------- *)
SetActiveLeaf(leaf) ==
  /\ leaf # activeLeaf
  /\ activeLeaf' = leaf
  /\ UNCHANGED <<settings, data, service, cursor, doc, pc, items, editor,
                 prevented, up, sent, val, eff, httpVars, bodyVars>>

MoveCursor(pos) ==
  /\ IsMarkdownView(activeLeaf)
  /\ pos \in 0..Len(doc[activeLeaf])
  /\ pos # cursor[activeLeaf]
  /\ cursor' = [cursor EXCEPT ![activeLeaf] = pos]
  /\ UNCHANGED <<settings, data, service, activeLeaf, doc, pc, items, editor,
                 prevented, up, sent, val, eff, httpVars, bodyVars>>

(* ---------------- paste_handle ---------------- *)
\* the synchronous run of the loop from index `from` of event e
RunLoop(e, its, from, upNow) ==
  LET st == Started(its, from) IN
  /\ up' = [up EXCEPT ![e] =
              [k \in Idx |-> IF k \in st THEN "flight" ELSE upNow[k]]]
  /\ sent' = [sent EXCEPT ![e] =
              [k \in Idx |-> IF k \in st
                             THEN Options(service, GetAsFile(its[k]))
                             ELSE sent[e][k]]]
  /\ prevented' = [prevented EXCEPT ![e] = prevented[e] \/ st # {}]
  /\ pc' = [pc EXCEPT ![e] =
              IF \E k \in Idx : (k \in st \/ upNow[k] = "flight")
              THEN "await" ELSE "done"]

\* the editor-paste event: paste_handle up to its first await. The event
\* comes from the editor of the active Markdown view.
Paste(e, clip) ==
  /\ pc[e] = "idle"
  /\ \A f \in Events : f < e => pc[f] # "idle"
  /\ IsMarkdownView(activeLeaf)
  /\ editor' = [editor EXCEPT ![e] = activeLeaf]
  /\ IF clip = NoClipboardData
     THEN /\ items' = items
          /\ pc' = [pc EXCEPT ![e] = "done"]
          /\ UNCHANGED <<up, sent, prevented>>
     ELSE /\ items' = [items EXCEPT ![e] = clip]
          /\ RunLoop(e, clip, 1, up[e])
  /\ UNCHANGED <<settings, data, service, activeLeaf, cursor, doc, val, eff,
                 httpVars, bodyVars>>

\* the upload of item k settles and paste_handle resumes: a rejection is
\* thrown out of the await and ends the handler; a value goes through the
\* instanceof branch and the loop runs on to its next await
Respond(e, k, outcome) ==
  /\ pc[e] = "await"
  /\ up[e][k] = "flight"
  /\ IF outcome.kind = "reject"
     THEN /\ up' = [up EXCEPT ![e][k] = "fail"]
          /\ pc' = [pc EXCEPT ![e] = "thrown"]
          /\ UNCHANGED <<val, eff, doc, cursor, sent, prevented>>
     ELSE LET r == AfterUpload(activeLeaf, outcome.value) IN
          /\ val' = [val EXCEPT ![e][k] = outcome.value]
          /\ eff' = [eff EXCEPT ![e][k] = r]
          /\ IF r.target \in Docs
             THEN /\ doc' = [doc EXCEPT ![r.target] =
                               replaceRange(doc[r.target], r.text, cursor[r.target])]
                  /\ \E adv \in {0, 1} :
                       cursor' = [cursor EXCEPT ![r.target] = cursor[r.target] + adv]
             ELSE UNCHANGED <<doc, cursor>>
          /\ RunLoop(e, items[e], k + 1, [up[e] EXCEPT ![k] = "ok"])
  /\ UNCHANGED <<settings, data, service, activeLeaf, items, editor,
                 httpVars, bodyVars>>

\* the settlements the sampled exchanges of a paste event end in
Responses ==
  {ErrorHandler("ECONNRESET"), EndHandler(403, Join(B_html)),
   EndHandler(200, Join(B_ok)), EndHandler(200, Join(B_500)),
   EndHandler(200, Join(B_html))}

\* Paste handling with the settings as loaded: overlapping paste events,
\* leaf switches and cursor moves. paste_handle reads the service only, which
\* the settings tab never writes; the settings tab is in SpecSettings.
Next ==
  \/ \E l \in Leaves : SetActiveLeaf(l)
  \/ \E p \in 0..(Len(InitialText) + MaxEvents * MaxItems) : MoveCursor(p)
  \/ \E e \in Events, c \in Clipboards : Paste(e, c)
  \/ \E e \in Events, k \in Idx, o \in Responses : Respond(e, k, o)

Spec == Init /\ [][Next]_vars

(* ---------------- settings changes and uploads ---------------- *)
\* The settings tab, plugin reload and the uploads of one paste event.
NextSettings ==
  \/ \E v \in Endpoints : SetEndpoint(v)
  \/ \E v \in Tokens : SetToken(v)
  \/ Onload
  \/ \E l \in Leaves : SetActiveLeaf(l)
  \/ \E c \in Clipboards : Paste(1, c)
  \/ \E k \in Idx, o \in Responses : Respond(1, k, o)

SpecSettings == Init /\ [][NextSettings]_vars

(* ---------------- one HTTP exchange of uploadImage ---------------- *)
MainIdle == MainInit /\ activeLeaf = "a.md" /\ cursor = [d \in Docs |-> 0]

HttpInit ==
  /\ statusCode \in StatusCodes
  /\ wire \in Bodies
  /\ responseData = ""
  /\ settled = Pending

\* res.on('data'): responseData += chunk
ResData ==
  /\ settled = Pending
  /\ wire # <<>>
  /\ responseData' = responseData \o Head(wire)
  /\ wire' = Tail(wire)
  /\ UNCHANGED <<statusCode, settled, mainVars, bodyVars>>

\* res.on('end')
ResEnd ==
  /\ settled = Pending
  /\ wire = <<>>
  /\ settled' = EndHandler(statusCode, responseData)
  /\ UNCHANGED <<statusCode, wire, responseData, mainVars, bodyVars>>

\* req.on('error'), at any point before the response has ended
ReqError(err) ==
  /\ settled = Pending
  /\ settled' = ErrorHandler(err)
  /\ UNCHANGED <<statusCode, wire, responseData, mainVars, bodyVars>>

NextHttp ==
  \/ ResData
  \/ ResEnd
  \/ \E err \in {"ECONNRESET", "ENOTFOUND"} : ReqError(err)

InitHttp == MainIdle /\ HttpInit /\ BodyIdle

SpecHttp == InitHttp /\ [][NextHttp]_vars

(* ---------------- the payload of one uploadImage call ---------------- *)
SampleBytes == {13, 45, 255}
\* 'Content-Disposition: form-data; name="source"' behind a delimiter line
SourcePartStart == DashDash \o boundary \o SubSeq(DispositionText, 1, 47)
\* image bytes that hold a delimiter line and the headers of a `source` part
CollidingBytes == CRLF \o SourcePartStart \o CRLF \o CRLF \o <<88>>

SampleFiles ==
  {[name |-> n, type |-> t, bytes |-> b] :
     n \in {<<105,109,97,103,101,46,112,110,103>>, <<22270,46,112,110,103>>},
     t \in {<<105,109,97,103,101,47,112,110,103>>,
            <<105,109,97,103,101,47,106,112,101,103>>},
     b \in {CollidingBytes}
            \cup UNION {[1..n -> SampleBytes] : n \in 0..MaxBlobLen}}

BodyInit ==
  /\ blob \in SampleFiles
  /\ payload = <<>>
  /\ contentLength = 0

\* uploadImage up to req.write(payload): the body and its declared length
BuildRequest ==
  /\ payload = <<>>
  /\ payload' = Payload(blob)
  /\ contentLength' = Options(service, blob).contentLength
  /\ UNCHANGED <<blob, mainVars, httpVars>>

NextBody == BuildRequest

InitBody == MainIdle /\ HttpIdle /\ BodyInit

SpecBody == InitBody /\ [][NextBody]_vars

(* ======================= properties ======================= *)
ImageIdx(e) == {k \in 1..Len(items[e]) : StartsWithImage(items[e][k])}
Inserted(e) == {k \in Idx : eff[e][k].target \in Docs}
Succeeded(e) == {k \in Idx : up[e][k] = "ok"}
InFlight(e) == {k \in Idx : up[e][k] = "flight"}
UploadSettles(e, k) == up[e][k] = "flight" /\ up'[e][k] = "ok"
NoViewNotice == "Failed to insert image, no active Markdown view."
LinkOf(u) == "![](" \o u \o ")"
RECURSIVE SumOver(_, _)
SumOver(f, S) ==
  IF S = {} THEN 0
  ELSE LET x == CHOOSE y \in S : TRUE IN f[x] + SumOver(f, S \ {x})
IsRequestError(o) == o \in {ErrorHandler("ECONNRESET"), ErrorHandler("ENOTFOUND")}

\* C1: every failed upload of a paste event is answered by one
\* 'Failed to upload image' notice and by no insertion for that item.
C1_FailureNotified ==
  \A e \in Events, k \in Idx :
    up[e][k] = "fail" =>
      /\ eff[e][k].notice = "Failed to upload image"
      /\ eff[e][k].target = "null"

\* C2: once the handler of a paste event has ended, an upload was issued for
\* exactly the entries whose type begins with `image`, whatever the outcome of
\* the earlier uploads.
C2_EveryImageUploaded ==
  \A e \in Events :
    pc[e] \in {"done", "thrown"} =>
      \A k \in Idx : (k \in ImageIdx(e)) <=> (up[e][k] # "none")

\* C3: an upload that settles with URL u while a Markdown view is active
\* makes one insertion, of `![](u)`, at the cursor the active document has at
\* that moment, and changes no other text; no paste event has more insertions
\* than successful uploads, and the documents hold one chunk per insertion.
C3_InsertAtCursor ==
  [][
    /\ \A e \in Events, k \in Idx :
         (/\ UploadSettles(e, k)
          /\ val'[e][k].t = "string"
          /\ IsMarkdownView(activeLeaf)) =>
           doc' = [doc EXCEPT ![activeLeaf] =
                     SubSeq(doc[activeLeaf], 1, cursor[activeLeaf])
                       \o <<LinkOf(val'[e][k].v)>>
                       \o SubSeq(doc[activeLeaf], cursor[activeLeaf] + 1,
                                 Len(doc[activeLeaf]))]
    /\ \A e \in Events : Cardinality(Inserted(e))' <= Cardinality(Succeeded(e))'
    /\ SumOver([d \in Docs |-> Len(doc[d]) - Len(InitialText)], Docs)'
         = SumOver([e \in Events |-> Cardinality(Inserted(e))], Events)'
  ]_vars

\* C3 witness: a link stands in front of the initial text of the document
\* that was active when its upload succeeded.
C3_Witness ==
  \E e \in Events, k \in Idx :
    /\ up[e][k] = "ok"
    /\ eff[e][k].target \in Docs
    /\ doc[eff[e][k].target] = <<LinkOf("https://x/y.png")>> \o InitialText

\* C5: a paste event has at most one upload in flight, and while one is in
\* flight every earlier image item of the event has completed and has had its
\* insertion or its notice.
C5_OneUploadInFlight ==
  \A e \in Events :
    /\ Cardinality(InFlight(e)) <= 1
    /\ \A k \in InFlight(e) : \A j \in ImageIdx(e) :
         j < k =>
           /\ up[e][j] \in {"ok", "fail"}
           /\ (eff[e][j].target \in Docs \/ eff[e][j].notice # "none")

\* C5 witness: the second image of an event is in flight after the first was
\* uploaded and handled, while the other event has an upload in flight too.
C5_Witness ==
  \E e, f \in Events :
    /\ e # f
    /\ up[e][1] = "ok" /\ eff[e][1] # NoEffect /\ up[e][2] = "flight"
    /\ InFlight(f) # {}

\* C7: a successful upload that settles while no Markdown view is active
\* raises the no-active-view notice and changes no document.
C7_NoViewNoMutation ==
  [][\A e \in Events, k \in Idx :
       (UploadSettles(e, k) /\ ~IsMarkdownView(activeLeaf)) =>
         /\ eff'[e][k].notice = NoViewNotice
         /\ eff'[e][k].target = "null"
         /\ doc' = doc
    ]_vars

\* C7 witness: an upload succeeded, its notice is the no-active-view notice
\* and both documents still hold their initial text.
C7_Witness ==
  \E e \in Events, k \in Idx :
    /\ up[e][k] = "ok"
    /\ val[e][k] = Str("https://x/y.png")
    /\ eff[e][k].notice = NoViewNotice
    /\ \A d \in Docs : doc[d] = InitialText

\* C10 as claimed: every link is inserted into the editor that received the
\* paste event of its image.
C10_InsertedWherePasted ==
  \A e \in Events, k \in Idx :
    eff[e][k].target \in Docs => eff[e][k].target = editor[e]

\* C10 as amended: when an upload settles with a value, the document whose
\* text changes is the one active at that moment and no other, whichever
\* editor received the paste.
C10_InsertedIntoActiveDocument ==
  [][\A e \in Events, k \in Idx :
       UploadSettles(e, k) =>
         \A d \in Docs : (doc'[d] # doc[d]) <=> (d = activeLeaf)
    ]_vars

\* C10 witness: a link went into a document other than the one pasted into.
C10_Witness ==
  \E e \in Events, k \in Idx :
    /\ eff[e][k].target \in Docs
    /\ eff[e][k].target # editor[e]
    /\ Len(doc[eff[e][k].target]) > Len(InitialText)
    /\ doc[editor[e]] = InitialText

\* C6: the request of every upload that starts carries the endpoint and the
\* API key the settings hold at that moment.
C6_RequestUsesCurrentSettings ==
  [][\A e \in Events, k \in Idx :
       (up[e][k] = "none" /\ up'[e][k] = "flight") =>
         sent'[e][k] = Options(ImageUploadService(settings),
                               GetAsFile(items'[e][k]))
    ]_vars

\* C4: with HTTP status 200 the promise resolves with the nested URL exactly
\* when the body parses, its status field is 200 and image.url is present;
\* otherwise it rejects with an error that carries the raw body.
C4_Status200Outcome ==
  (statusCode = 200 /\ settled # Pending /\ ~IsRequestError(settled)) =>
    LET json == JSONparse(responseData) IN
    IF /\ ~json.throws
       /\ ~json.isNull
       /\ LooseEq200(json.status_code)
       /\ json.url # Undefined
    THEN settled.kind = "resolve" /\ settled.value = json.url
    ELSE /\ settled.kind = "reject"
         /\ \E prefix \in {"Upload failed: ", "Error parsing response: "} :
              settled.value = ErrorOf(prefix \o responseData)

\* C8: a response whose status is not 200 rejects with an error naming that
\* status, whatever the body, and the body is not parsed.
C8_Non200Rejects ==
  (statusCode # 200 /\ settled # Pending /\ ~IsRequestError(settled)) =>
    /\ settled.kind = "reject"
    /\ settled.value = ErrorOf("Upload failed with status: " \o ToString(statusCode))
    /\ ~settled.parsed

\* C8 witness: status 403 with the body of a successful upload was rejected
\* with the status in the message.
C8_Witness ==
  /\ statusCode = 403
  /\ responseData = Join(B_ok)
  /\ settled.kind = "reject"
  /\ settled.value = ErrorOf("Upload failed with status: 403")

\* the `source` parts a multipart reader finds in a body: the delimiter lines
\* followed by a Content-Disposition naming `source`
SourceParts(bytes) ==
  Cardinality({i \in 1..(Len(bytes) - Len(SourcePartStart) + 1) :
                 SubSeq(bytes, i, i + Len(SourcePartStart) - 1) = SourcePartStart})

\* C9: the body built for a blob holds exactly one `source` part, of the
\* blob's length plus the part header, and Content-Length is the length of
\* the whole payload.
C9_OneSourcePart ==
  payload # <<>> =>
    /\ SourceParts(payload) = 1
    /\ Len(payload) - Len(Terminator) = Len(PartHeader(blob)) + Len(blob.bytes)
    /\ contentLength = Len(payload)

====
